---- MODULE Spec2Model ----
(***************************************************************************)
(* Model of the query execution subsystem of mcp_clickhouse/mcp_server.py: *)
(*   execute_query      a function memoized by functools.lru_cache          *)
(*   run_select_query   submits execute_query to QUERY_EXECUTOR and waits   *)
(*                      for the future with a timeout                       *)
(*   check_table_exists the existence probe built on execute_query          *)
(*   create_clickhouse_client   the connection provider                     *)
(* together with the ClickHouse server the statements are sent to.          *)
(***************************************************************************)
EXTENDS Integers, Sequences, FiniteSets, TLC

VARIABLES
    caller,   \* per calling thread: the tool call it is blocked in
    run,      \* per invocation of execute_query: where it is inside the wrapper / body
    cache,    \* the lru_cache of execute_query, least recently used entry first
    db,       \* the ClickHouse server's data
    lastRet,  \* what the step just taken returned to a tool's caller, if it returned
    proc      \* the server process: "up", "draining" (in its atexit handler), "exited"

vars == <<caller, run, cache, db, lastRet, proc>>

----------------------------------------------------------------------------
(* Program constants *)

SELECT_QUERY_TIMEOUT_SECS == 30
max_workers == 10

(* Bounds of the model *)

\* capacity of the lru_cache, scaled down (the program's maxsize is 128) so that
\* the cache fills and evicts with the handful of query texts of the model
maxsize == 2
\* batches of rows the table db.t can hold
MaxBatches == 1

\* calling threads; the execution a caller waits for has the caller's number
Callers == {1, 2}
\* executions of execute_query: the one a caller is in or waits for has the
\* caller's number, the ones nobody waits for any more have negative numbers
Runs == DOMAIN run
OrphanSlots == {r \in Runs : r < 0}
\* executions that may be alive at once, waited for or not
MaxLive == Cardinality(OrphanSlots)
\* the slots numbered -1 .. -n
Slots(n) == {0 - k : k \in 1 .. n}

\* the clock advances by the length of the deadline
TickSecs == SELECT_QUERY_TIMEOUT_SECS

----------------------------------------------------------------------------
(* Python values *)

None == [tag |-> "None"]
Str(s) == [tag |-> "str", s |-> s]
Bool(b) == [tag |-> "bool", b |-> b]
DataFrame(columns, rows) == [tag |-> "DataFrame", columns |-> columns, rows |-> rows]
\* a raised exception (not a value)
Raise(type) == [tag |-> "raise", type |-> type]

----------------------------------------------------------------------------
(* Query texts *)

SelectQ == "SELECT * FROM db.t"
InsertQ == "INSERT INTO db.t (id, name) VALUES (1, 'Alice'), (2, 'Bob')"
\* texts a user hands to run_select_query
UserQueries == {SelectQ, InsertQ}
\* texts the metadata tools hand to execute_query
ToolQueries == {SelectQ}

GoodName == "db.t"
BadName == "db.t )"
EntityNames == {GoodName, BadName}

\* check_table_exists: f"exists {table_name}"
ProbeQuery(table_name) == "exists " \o table_name

(* The metadata tools *)

MetadataTools ==
    {"list_databases", "list_database_tables", "list_table_columns",
     "get_table_relationships"}

\* the relation each tool hands to check_table_exists
ProbedRelation(tool) ==
    CASE tool = "list_databases" -> "assistant.databases"
      [] tool = "list_database_tables" -> "assistant.tables"
      [] tool = "list_table_columns" -> "assistant.columns"
      [] tool = "get_table_relationships" -> "assistant.table_relations"

AssistantRelations == {ProbedRelation(tool) : tool \in MetadataTools}

\* ', '.join([f"'{value}'" for value in values])
RECURSIVE format_list_for_sql(_)
format_list_for_sql(values) ==
    IF values = <<>> THEN ""
    ELSE IF Len(values) = 1 THEN "'" \o values[1] \o "'"
    ELSE "'" \o values[1] \o "', " \o format_list_for_sql(Tail(values))

\* clickhouse_connect's format_query_value on a string
format_query_value(value) == "'" \o value \o "'"

\* the arguments the tools are called with
DatabasesArg == <<"db">>
TableNamesArg == <<"db.t", "db.u">>
TableNameArg == "db.t"

\* the sql each tool starts from (line breaks and indentation left out)
RichSql(tool) ==
    CASE tool = "list_databases" ->
            "SELECT database_name, database_description FROM assistant.databases"
      [] tool = "list_database_tables" ->
            "SELECT table_name, table_description, table_sorting_key FROM assistant.tables"
            \o " WHERE database_name IN (" \o format_list_for_sql(DatabasesArg) \o ")"
      [] tool = "list_table_columns" ->
            "SELECT column_name, column_type, column_description FROM assistant.columns"
            \o " WHERE table_name IN (" \o format_list_for_sql(TableNamesArg) \o ")"
      [] tool = "get_table_relationships" ->
            "SELECT foreign_column_name, related_table_name, join_column_name, relationship"
            \o " FROM assistant.table_relations WHERE table_name = "
            \o format_query_value(TableNameArg)

\* the sql each tool replaces it with when check_table_exists answered false
FallbackSql(tool) ==
    CASE tool = "list_databases" ->
            "SELECT name as database_name, comment as database_description"
            \o " FROM system.databases"
      [] tool = "list_database_tables" ->
            "SELECT database || '.' || name as table_name, comment as table_description,"
            \o " sorting_key as table_sorting_key FROM system.tables"
            \o " WHERE database IN (" \o format_list_for_sql(DatabasesArg) \o ")"
      [] tool = "list_table_columns" ->
            "SELECT name as column_name, type as column_type, comment as column_description"
            \o " FROM system.columns WHERE database || '.' || table IN ("
            \o format_list_for_sql(TableNamesArg) \o ")"
      [] tool = "get_table_relationships" ->
            "SELECT '' as foreign_column_name, '' as related_table_name,"
            \o " '' as join_column_name, '' as relationship"

\* (mutant) the answer of check_table_exists is not looked at
ToolSql_AlwaysRich(tool, exists) == RichSql(tool)

\* sql = <rich>; if not check_table_exists(<relation>): sql = <fallback>
ToolSql(tool, exists) == IF ~exists THEN FallbackSql(tool) ELSE RichSql(tool)

\* the columns both templates of a tool select
ToolColumns(tool) ==
    CASE tool = "list_databases" -> <<"database_name", "database_description">>
      [] tool = "list_database_tables" ->
            <<"table_name", "table_description", "table_sorting_key">>
      [] tool = "list_table_columns" -> <<"column_name", "column_type", "column_description">>
      [] tool = "get_table_relationships" ->
            <<"foreign_column_name", "related_table_name", "join_column_name",
              "relationship">>

\* execute_query: the text wrapped in the sentinel comment header and footer
WrapSql(query) ==
    [header |-> "-- MCP CLICKHOUSE QUERY", body |-> query,
     footer |-> "-- END MCP CLICKHOUSE QUERY"]

\* (mutant) the read-only setting is not passed
QuerySettings_Writable == [readonly |-> 0]

\* execute_query: client.query_df(sql, settings={"readonly": 1})
QuerySettings == [readonly |-> 1]

Statement(query) == [sql |-> WrapSql(query), settings |-> QuerySettings]

NoStatement == [sql |-> None, settings |-> None]

----------------------------------------------------------------------------
(* The ClickHouse server: the table db.t, which other clients create, fill  *)
(* and drop (as the test fixture does), and how it answers a statement.     *)

\* one INSERT of the fixture adds the batch (1, 'Alice'), (2, 'Bob'); the rows
\* of db.t after n batches, in the order the server returns them
BatchNames == <<"Alice", "Bob">>
TableRows(n) ==
    [i \in 1 .. n * Len(BatchNames) |-> <<i, BatchNames[((i - 1) % Len(BatchNames)) + 1]>>]

\* db.t is absent, or holds n batches
\* assistant: the relations of the assistant schema that exist
DbStates ==
    {[exists |-> FALSE, n |-> 0, assistant |-> {}]}
        \cup {[exists |-> TRUE, n |-> k, assistant |-> {}] : k \in 0 .. MaxBatches}

Ok(df, d) == [ok |-> TRUE, df |-> df, err |-> "", db |-> d]
Fail(err, d) == [ok |-> FALSE, df |-> None, err |-> err, db |-> d]

\* a mutating statement in a session with readonly >= 1 is rejected
ReadOnlySession(settings) == settings.readonly >= 1

\* The server's answer to a statement in state d, and the state it leaves.
\* The sentinel comment lines of the sql are ignored; the body is what runs.
Server(stmt, d) ==
    LET body == stmt.sql.body IN
    CASE body = SelectQ ->
            IF d.exists THEN Ok(DataFrame(<<"id", "name">>, TableRows(d.n)), d)
            ELSE Fail("UNKNOWN_TABLE", d)
      [] body = InsertQ ->
            IF ReadOnlySession(stmt.settings) THEN Fail("READONLY", d)
            ELSE IF ~d.exists THEN Fail("UNKNOWN_TABLE", d)
            ELSE Ok(DataFrame(<<>>, <<>>),
                    [d EXCEPT !.n = IF d.n < MaxBatches THEN d.n + 1 ELSE d.n])
      [] body = ProbeQuery(GoodName) ->
            Ok(DataFrame(<<"result">>, << <<IF d.exists THEN 1 ELSE 0>> >>), d)
      [] \E tool \in MetadataTools : body = ProbeQuery(ProbedRelation(tool)) ->
            LET tool == CHOOSE t \in MetadataTools : body = ProbeQuery(ProbedRelation(t))
            IN Ok(DataFrame(<<"result">>,
                            << <<IF ProbedRelation(tool) \in d.assistant THEN 1 ELSE 0>> >>), d)
      [] \E tool \in MetadataTools : body = RichSql(tool) ->
            LET tool == CHOOSE t \in MetadataTools : body = RichSql(t)
            IN IF ProbedRelation(tool) \in d.assistant
               THEN Ok(DataFrame(ToolColumns(tool), <<>>), d)
               ELSE Fail("UNKNOWN_TABLE", d)
      [] \E tool \in MetadataTools : body = FallbackSql(tool) ->
            LET tool == CHOOSE t \in MetadataTools : body = FallbackSql(t)
            IN Ok(DataFrame(ToolColumns(tool),
                            IF tool = "get_table_relationships"
                            THEN << <<"", "", "", "">> >> ELSE <<>>), d)
      [] OTHER -> Fail("SYNTAX_ERROR", d)

----------------------------------------------------------------------------
(* functools.lru_cache(maxsize): a list of entries, oldest first *)

CacheKeys(c) == {c[i].k : i \in DOMAIN c}
\* (mutant) the lookup never finds the key
CacheHas_Never(c, k) == FALSE
CacheHas(c, k) == k \in CacheKeys(c)
CacheIndex(c, k) == CHOOSE i \in DOMAIN c : c[i].k = k
CacheGet(c, k) == c[CacheIndex(c, k)].v
RemoveAt(c, i) == SubSeq(c, 1, i - 1) \o SubSeq(c, i + 1, Len(c))
\* (mutant) a hit leaves the order alone
CacheTouch_NoMove(c, k) == c

\* a hit moves the entry to the most recently used end
CacheTouch(c, k) == Append(RemoveAt(c, CacheIndex(c, k)), c[CacheIndex(c, k)])
\* (mutant) the wrapper stores without looking whether the key was added meanwhile
CacheStore_NoRecheck(c, k, v) ==
    IF Len(c) < maxsize THEN Append(c, [k |-> k, v |-> v])
    ELSE Append(Tail(c), [k |-> k, v |-> v])

\* (mutant) a change of the server's data empties the cache
CacheAfterDataChange_Clear(c) == <<>>

\* lru_cache knows nothing of the server: its entries stay whatever happens there
CacheAfterDataChange(c) == c

\* (mutant) a key added meanwhile gets the value of the later call
CacheStore_Overwrite(c, k, v) ==
    IF CacheHas(c, k) THEN [i \in DOMAIN c |-> IF c[i].k = k THEN [k |-> k, v |-> v] ELSE c[i]]
    ELSE IF Len(c) < maxsize THEN Append(c, [k |-> k, v |-> v])
    ELSE Append(Tail(c), [k |-> k, v |-> v])

\* after the call: a key added meanwhile is left alone; a full cache drops its oldest entry
CacheStore(c, k, v) ==
    IF CacheHas(c, k) THEN c
    ELSE IF Len(c) < maxsize THEN Append(c, [k |-> k, v |-> v])
    ELSE Append(Tail(c), [k |-> k, v |-> v])

----------------------------------------------------------------------------
(* create_clickhouse_client *)

\* What the network and the server do to a connection attempt: get_client
\* succeeds or fails in the transport or the authentication, and reading
\* server_version on the new client succeeds or fails in the handshake.
LinkStates ==
    {[get_client |-> g, server_version |-> v] :
        g \in {"ok", "TransportError", "AuthError"}, v \in {"ok", "HandshakeError"}}

\* exceptions the two calls inside the try block can raise
ConnectErrors == {"TransportError", "AuthError", "HandshakeError"}

\* clickhouse_connect.get_client(compression=True, **client_config)
GetClient(link) ==
    IF link.get_client = "ok" THEN [tag |-> "client", version |-> None]
    ELSE Raise(link.get_client)

\* (mutant) the connection is not tested
ServerVersion_Unread(client, link) == None

\* version = client.server_version
ServerVersion(client, link) ==
    IF link.server_version = "ok" THEN Str("server version") ELSE Raise(link.server_version)

\* except Exception as e: logger.error(...); raise
OnConnectError(exc, attempts) == [out |-> exc, attempts |-> attempts]

\* out: the client returned or the exception raised; attempts: how many times
\* get_client was called
create_clickhouse_client(link) ==
    LET client == GetClient(link) IN
    IF client.tag = "raise" THEN OnConnectError(client, 1)
    ELSE LET version == ServerVersion(client, link) IN
         IF version.tag = "raise" THEN OnConnectError(version, 1)
         ELSE [out |-> [client EXCEPT !.version = version], attempts |-> 1]

----------------------------------------------------------------------------
(* execute_query *)

\* (mutant) the failure of the call is memoized like a returned value
CacheAfterRaise_Memo(c, query, exc) == Append(c, [k |-> query, v |-> exc])

\* an exception leaving execute_query goes through the lru_cache wrapper
\* without touching the cache
CacheAfterRaise(c, query, exc) == c

\* (mutant) the exception of query_df is not caught
OnQueryError_Reraise(err) == Raise(err)

\* except Exception as err: return f"error running query: {err}"
OnQueryError(err) == Str("error running query: " \o err)

\* the body of execute_query once the client exists: what it returns and the
\* state the server is left in
ExecuteBody(query, d) ==
    LET ans == Server(Statement(query), d) IN
    [res |-> IF ans.ok THEN ans.df ELSE OnQueryError(ans.err), db |-> ans.db]

(* run_select_query *)

\* (mutant) the wait lasts twice the deadline
WaitTimeout_Double == 2 * SELECT_QUERY_TIMEOUT_SECS

\* future.result(timeout=SELECT_QUERY_TIMEOUT_SECS)
WaitTimeout == SELECT_QUERY_TIMEOUT_SECS

\* (mutant) the result is rendered as the metadata tools render theirs
RunSelectResult_Markdown(result) == Str("markdown")

\* result = future.result(...); return result
RunSelectResult(result) == result

\* (mutant) the cancellation stops nothing
CancelStops_Never(st) == FALSE

\* (mutant) the cancellation stops an execution under way too
CancelStops_Always(st) == TRUE

\* future.cancel() stops a work item only while no worker has taken it
CancelStops(st) == st = "pending"

TimeoutMessage ==
    Str("Queries taking longer than " \o ToString(SELECT_QUERY_TIMEOUT_SECS)
        \o " seconds are currently not supported.")

\* (mutant) run_select_query memoizes what it returns at a timeout
CacheAfterTimeout_Memo(c, query) == CacheStore(c, query, TimeoutMessage)

\* the timeout path of run_select_query leaves the cache of execute_query alone
CacheAfterTimeout(c, query) == c

(* check_table_exists *)

Truthy(cell) == cell # 0

\* bool(result["result"][0]) on what execute_query returned
ProbeCoerce(result) ==
    IF result.tag = "str" THEN Raise("TypeError")
    ELSE IF \A j \in DOMAIN result.columns : result.columns[j] # "result" THEN Raise("KeyError")
    ELSE IF result.rows = <<>> THEN Raise("KeyError")
    ELSE LET j == CHOOSE j \in DOMAIN result.columns : result.columns[j] = "result"
         IN Bool(Truthy(result.rows[1][j]))

(* the metadata tools *)

\* execute_query(sql).to_markdown(index=False, tablefmt="pipe"): the frame
\* rendered as a pipe table; a str has no to_markdown
ToMarkdown(result) ==
    IF result.tag = "DataFrame"
    THEN [tag |-> "str", markdown |-> [header |-> result.columns, lines |-> result.rows]]
    ELSE Raise("AttributeError")

----------------------------------------------------------------------------
(* State *)

\* st: where the invocation is; q: its query text; res: what it returned or
\* raised; conn: the body was entered (create_clickhouse_client called);
\* sent: the statement handed to query_df; client: what
\* create_clickhouse_client returned; attempts: the get_client calls it made;
\* ahead: the work items put into the executor's queue before this one and
\* still in it
FreeRun ==
    [st |-> "free", q |-> "", res |-> None, conn |-> FALSE, sent |-> NoStatement,
     client |-> None, attempts |-> 0, ahead |-> {}]

IdleCaller == [pc |-> "idle", op |-> "none", q |-> "", elapsed |-> 0]

\* op: the tool; q: the query text; ret: the value returned or exception raised;
\* conn: whether the call got as far as create_clickhouse_client
NoReturn == [op |-> "none", q |-> "", ret |-> None, conn |-> FALSE]

Init ==
    /\ caller = [c \in Callers |-> IdleCaller]
    /\ run = [r \in Callers \cup Slots(Cardinality(Callers)) |-> FreeRun]
    /\ cache = <<>>
    /\ db \in DbStates
    /\ lastRet = NoReturn
    /\ proc = "up"

Pooled(r) == r \in OrphanSlots \/ caller[r].op = "run_select_query"

\* work items of QUERY_EXECUTOR that a worker thread is running
Running == {r \in Runs : Pooled(r) /\ run[r].st \in {"body", "store"}}

\* work items waiting in the queue of QUERY_EXECUTOR
Queued == {r \in Runs : run[r].st = "pending"}

\* (mutant) the executor starts a thread for every work item
CanStartWorker_Unbounded(ahead, busy) == TRUE

\* ThreadPoolExecutor(max_workers=10): the workers take the work items in the
\* order they were queued, so an item can be started when the workers not
\* running anything are more than the items queued ahead of it
CanStartWorker(ahead, busy) == ahead + busy < max_workers

\* the work item c has left the queue
Dequeue(rn, c) == [r \in DOMAIN rn |-> [rn[r] EXCEPT !.ahead = @ \ {c}]]

FreeOrphanSlots == {o \in OrphanSlots : run[o].st = "free"}

\* executions alive: those a caller is blocked on and the orphaned ones
Live == {r \in Runs : run[r].st # "free"}
\* a tool can be called while the process is up
CanCall(c) == proc = "up" /\ caller[c].pc = "idle" /\ Cardinality(Live) < MaxLive

\* what the tool `op` makes of the outcome of its execute_query call
ToolResult(op, outcome) ==
    IF op = "check_table_exists" /\ outcome.tag # "raise" THEN ProbeCoerce(outcome)
    ELSE IF op \in MetadataTools /\ outcome.tag # "raise" THEN ToMarkdown(outcome)
    ELSE outcome

\* a metadata tool has the outcome of its probe query: check_table_exists
\* raises, and the tool with it, or answers, and the tool goes on with the sql
\* the answer selects
AfterProbe(c, tool, outcome, conn) ==
    LET answer == ToolResult("check_table_exists", outcome) IN
    IF answer.tag = "raise"
    THEN /\ caller' = [caller EXCEPT ![c] = IdleCaller]
         /\ lastRet' = [op |-> tool, q |-> ProbeQuery(ProbedRelation(tool)),
                        ret |-> answer, conn |-> conn]
    ELSE /\ caller' = [caller EXCEPT ![c] = [pc |-> "data", op |-> tool,
                                              q |-> ToolSql(tool, answer.b),
                                              elapsed |-> 0]]
         /\ lastRet' = NoReturn

\* an execution ends with `outcome` (a returned value or a raised exception):
\* a future keeps it for the waiting caller, a direct call returns it to its
\* caller at once, and the outcome of an orphaned execution is dropped;
\* attempts: the get_client calls the execution made
Deliver(r, outcome, attempts) ==
    IF r \in OrphanSlots
    THEN /\ run' = [run EXCEPT ![r] = FreeRun]
         /\ lastRet' = NoReturn
         /\ UNCHANGED caller
    ELSE IF caller[r].op = "run_select_query"
    THEN /\ run' = [run EXCEPT ![r].st = "done", ![r].res = outcome,
                               ![r].attempts = attempts]
         /\ lastRet' = NoReturn
         /\ UNCHANGED caller
    ELSE IF caller[r].pc = "probe"
    THEN /\ run' = [run EXCEPT ![r] = FreeRun]
         /\ AfterProbe(r, caller[r].op, outcome, run[r].conn)
    ELSE /\ run' = [run EXCEPT ![r] = FreeRun]
         /\ caller' = [caller EXCEPT ![r] = IdleCaller]
         /\ lastRet' = [op |-> caller[r].op, q |-> run[r].q,
                        ret |-> ToolResult(caller[r].op, outcome), conn |-> run[r].conn]

\* The lru_cache wrapper is entered for `query` by caller c in its own thread:
\* on a hit the cached value is returned at once and the entry becomes the
\* most recently used; on a miss the body of execute_query starts.
EnterDirect(c, op, query) ==
    IF CacheHas(cache, query)
    THEN /\ cache' = CacheTouch(cache, query)
         /\ lastRet' = [op |-> op, q |-> query,
                        ret |-> ToolResult(op, CacheGet(cache, query)), conn |-> FALSE]
         /\ UNCHANGED <<caller, run>>
    ELSE /\ caller' = [caller EXCEPT ![c] = [pc |-> "busy", op |-> op, q |-> query,
                                              elapsed |-> 0]]
         /\ run' = [run EXCEPT ![c] = [FreeRun EXCEPT !.st = "body", !.q = query,
                                                     !.conn = TRUE]]
         /\ lastRet' = NoReturn
         /\ UNCHANGED cache

----------------------------------------------------------------------------
(* Tool calls *)

\* run_select_query: future = QUERY_EXECUTOR.submit(execute_query, query)
CallRunSelect(c, query) ==
    /\ CanCall(c)
    /\ run' = [run EXCEPT ![c] = [FreeRun EXCEPT !.st = "pending", !.q = query,
                                                !.ahead = Queued]]
    /\ caller' = [caller EXCEPT ![c] = [pc |-> "busy", op |-> "run_select_query",
                                         q |-> query, elapsed |-> 0]]
    /\ lastRet' = NoReturn
    /\ UNCHANGED <<cache, db, proc>>

\* a worker thread of the pool takes the work item and calls execute_query:
\* the lru_cache wrapper returns a hit to the future, or starts the body
WorkerStart(c) ==
    /\ run[c].st = "pending"
    /\ CanStartWorker(Cardinality(run[c].ahead), Cardinality(Running))
    /\ IF CacheHas(cache, run[c].q)
       THEN /\ run' = [Dequeue(run, c) EXCEPT ![c].st = "done", ![c].ahead = {},
                                              ![c].res = CacheGet(cache, run[c].q)]
            /\ cache' = CacheTouch(cache, run[c].q)
       ELSE /\ run' = [Dequeue(run, c) EXCEPT ![c].st = "body", ![c].ahead = {},
                                              ![c].conn = TRUE]
            /\ cache' = cache
    /\ lastRet' = NoReturn
    /\ UNCHANGED <<caller, db, proc>>

\* execute_query called in the caller's own thread (the metadata tools)
CallExecute(c, query) ==
    /\ CanCall(c)
    /\ EnterDirect(c, "execute_query", query)
    /\ UNCHANGED <<db, proc>>

\* check_table_exists: result = execute_query(f"exists {table_name}");
\* return bool(result["result"][0])
CallCheckTableExists(c, table_name) ==
    /\ CanCall(c)
    /\ EnterDirect(c, "check_table_exists", ProbeQuery(table_name))
    /\ UNCHANGED <<db, proc>>

\* a metadata tool is called: it calls check_table_exists on its relation,
\* whose execute_query call hits the cache or starts the body
CallTool(c, tool) ==
    /\ CanCall(c)
    /\ LET probe == ProbeQuery(ProbedRelation(tool)) IN
        IF CacheHas(cache, probe)
        THEN /\ cache' = CacheTouch(cache, probe)
             /\ AfterProbe(c, tool, CacheGet(cache, probe), FALSE)
             /\ UNCHANGED run
        ELSE /\ caller' = [caller EXCEPT ![c] = [pc |-> "probe", op |-> tool,
                                                  q |-> probe, elapsed |-> 0]]
             /\ run' = [run EXCEPT ![c] = [FreeRun EXCEPT !.st = "body", !.q = probe,
                                                         !.conn = TRUE]]
             /\ lastRet' = NoReturn
             /\ UNCHANGED cache
    /\ UNCHANGED <<db, proc>>

\* the tool calls execute_query(sql), which hits the cache (the tool returns
\* the rendered result) or starts the body
ToolData(c) ==
    /\ caller[c].pc = "data"
    /\ LET sql == caller[c].q IN
        IF CacheHas(cache, sql)
        THEN /\ cache' = CacheTouch(cache, sql)
             /\ caller' = [caller EXCEPT ![c] = IdleCaller]
             /\ lastRet' = [op |-> caller[c].op, q |-> sql,
                            ret |-> ToolResult(caller[c].op, CacheGet(cache, sql)),
                            conn |-> FALSE]
             /\ UNCHANGED run
        ELSE /\ caller' = [caller EXCEPT ![c].pc = "busy"]
             /\ run' = [run EXCEPT ![c] = [FreeRun EXCEPT !.st = "body", !.q = sql,
                                                         !.conn = TRUE]]
             /\ lastRet' = NoReturn
             /\ UNCHANGED cache
    /\ UNCHANGED <<db, proc>>

----------------------------------------------------------------------------
(* Inside execute_query *)

\* create_clickhouse_client raises: the exception leaves execute_query, and
\* the wrapper stores nothing
ConnectFail(r) ==
    /\ run[r].st = "body"
    /\ \E link \in LinkStates :
        LET made == create_clickhouse_client(link) IN
            /\ made.out.tag = "raise"
            /\ Deliver(r, made.out, made.attempts)
            /\ cache' = CacheAfterRaise(cache, run[r].q, made.out)
    /\ UNCHANGED <<db, proc>>

\* create_clickhouse_client returns a client; client.query_df(sql,
\* settings={"readonly": 1}) sends the statement, the server answers, and the
\* body returns the frame or the error string
Execute(r) ==
    /\ run[r].st = "body"
    /\ \E link \in LinkStates :
        LET made == create_clickhouse_client(link)
            out == ExecuteBody(run[r].q, db)
        IN  /\ made.out.tag # "raise"
            /\ run' = [run EXCEPT ![r].st = "store", ![r].res = out.res,
                                  ![r].sent = Statement(run[r].q),
                                  ![r].client = made.out,
                                  ![r].attempts = made.attempts]
            /\ db' = out.db
    /\ lastRet' = NoReturn
    /\ UNCHANGED <<caller, cache, proc>>

\* back in the lru_cache wrapper: the returned value is stored under the
\* query text and handed on
Store(r) ==
    /\ run[r].st = "store"
    /\ cache' = CacheStore(cache, run[r].q, run[r].res)
    /\ Deliver(r, run[r].res, run[r].attempts)
    /\ UNCHANGED <<db, proc>>

----------------------------------------------------------------------------
(* run_select_query returns *)

\* future.result(timeout=...) hands over what execute_query returned (or
\* re-raises what it raised)
RunSelectReturn(c) ==
    /\ caller[c].op = "run_select_query"
    /\ run[c].st = "done"
    /\ lastRet' = [op |-> "run_select_query", q |-> run[c].q,
                    ret |-> RunSelectResult(run[c].res), conn |-> run[c].conn]
    /\ caller' = [caller EXCEPT ![c] = IdleCaller]
    /\ run' = [run EXCEPT ![c] = FreeRun]
    /\ UNCHANGED <<cache, db, proc>>

\* concurrent.futures.TimeoutError: future.cancel(), which stops only a work
\* item no worker has taken yet (an execution under way runs on, nobody
\* waiting for it), and the timeout message is returned
RunSelectTimeout(c) ==
    /\ caller[c].op = "run_select_query"
    /\ run[c].st # "done"
    /\ caller[c].elapsed >= WaitTimeout
    /\ IF CancelStops(run[c].st)
       THEN run' = [Dequeue(run, c) EXCEPT ![c] = FreeRun]
       ELSE \E o \in FreeOrphanSlots :
                /\ \A o2 \in FreeOrphanSlots : o >= o2
                /\ run' = [run EXCEPT ![c] = FreeRun, ![o] = run[c]]
    /\ lastRet' = [op |-> "run_select_query", q |-> run[c].q, ret |-> TimeoutMessage,
                    conn |-> run[c].conn]
    /\ caller' = [caller EXCEPT ![c] = IdleCaller]
    /\ cache' = CacheAfterTimeout(cache, run[c].q)
    /\ UNCHANGED <<db, proc>>

----------------------------------------------------------------------------
(* Environment *)

Waiting == {c \in Callers : caller[c].op = "run_select_query"}

\* time passes for every caller blocked in future.result; a wait ends no
\* later than its timeout
Tick ==
    /\ Waiting # {}
    /\ \A c \in Waiting : caller[c].elapsed + TickSecs <= WaitTimeout
    /\ caller' = [c \in Callers |->
                    IF c \in Waiting THEN [caller[c] EXCEPT !.elapsed = @ + TickSecs]
                    ELSE caller[c]]
    /\ lastRet' = NoReturn
    /\ UNCHANGED <<run, cache, db, proc>>

\* another client of the server creates, fills or drops db.t
DataChange ==
    /\ db' \in DbStates
    /\ \/ ~db.exists /\ db'.exists /\ db'.n = 0
       \/ db.exists /\ ~db'.exists
       \/ db.exists /\ db'.exists /\ db'.n = db.n + 1
    /\ cache' = CacheAfterDataChange(cache)
    /\ lastRet' = NoReturn
    /\ UNCHANGED <<caller, run, proc>>

\* another client of the server installs or drops the assistant schema
SchemaChange ==
    /\ db' = [db EXCEPT !.assistant = IF @ = {} THEN AssistantRelations ELSE {}]
    /\ cache' = CacheAfterDataChange(cache)
    /\ lastRet' = NoReturn
    /\ UNCHANGED <<caller, run, proc>>

\* (mutant) the atexit handler does not wait for the workers
ShutdownWait_False == FALSE

\* atexit.register(lambda: QUERY_EXECUTOR.shutdown(wait=True))
ShutdownWait == TRUE

\* normal shutdown: the main thread has finished (no tool call is under way)
\* and the interpreter runs the atexit handler
Shutdown ==
    /\ proc = "up"
    /\ \A c \in Callers : caller[c].pc = "idle"
    /\ proc' = "draining"
    /\ lastRet' = NoReturn
    /\ UNCHANGED <<caller, run, cache, db>>

\* shutdown(wait=True) returns once the queue is empty and every worker thread
\* has ended; the process exits
Exit ==
    /\ proc = "draining"
    /\ ShutdownWait => (Running = {} /\ Queued = {})
    /\ proc' = "exited"
    /\ lastRet' = NoReturn
    /\ UNCHANGED <<caller, run, cache, db>>

----------------------------------------------------------------------------

Next ==
    \/ \E c \in Callers, query \in UserQueries : CallRunSelect(c, query)
    \/ \E c \in Callers, query \in ToolQueries : CallExecute(c, query)
    \/ \E c \in Callers, table_name \in EntityNames : CallCheckTableExists(c, table_name)
    \/ \E c \in Callers : WorkerStart(c)
    \/ \E r \in Runs : ConnectFail(r)
    \/ \E r \in Runs : Execute(r)
    \/ \E r \in Runs : Store(r)
    \/ \E c \in Callers : RunSelectReturn(c)
    \/ \E c \in Callers : RunSelectTimeout(c)
    \/ Tick
    \/ DataChange

Spec == Init /\ [][Next]_vars

----------------------------------------------------------------------------
(* The executor under load and at shutdown: all but one of the workers are   *)
(* running executions whose callers have timed out, so that the submissions  *)
(* of the callers meet a full pool.                                          *)

LoadedSlots == Slots(max_workers + 1) \ Slots(Cardinality(Callers))

PoolInit ==
    /\ caller = [c \in Callers |-> IdleCaller]
    /\ run = [r \in Callers \cup Slots(max_workers + 1) |->
                IF r \in LoadedSlots
                THEN [FreeRun EXCEPT !.st = "body", !.q = SelectQ, !.conn = TRUE]
                ELSE FreeRun]
    /\ cache = <<>>
    /\ db = [exists |-> TRUE, n |-> 0]
    /\ lastRet = NoReturn
    /\ proc = "up"

\* executions nobody waits for that are in the same state are interchangeable:
\* of those, the one with the lowest number takes the next step
Foremost(r) == r \in Callers \/ \A o \in OrphanSlots : o < r => run[o] # run[r]

PoolNext ==
    \/ \E c \in Callers : CallRunSelect(c, SelectQ)
    \/ \E c \in Callers : WorkerStart(c)
    \/ \E r \in Runs : Foremost(r) /\ Execute(r)
    \/ \E r \in Runs : Foremost(r) /\ Store(r)
    \/ \E c \in Callers : RunSelectReturn(c)
    \/ \E c \in Callers : RunSelectTimeout(c)
    \/ Tick
    \/ Shutdown
    \/ Exit

PoolSpec == PoolInit /\ [][PoolNext]_vars

----------------------------------------------------------------------------
(* The metadata tools, on a server where the assistant schema comes and goes *)

ToolInit ==
    /\ caller = [c \in Callers |-> IdleCaller]
    /\ run = [r \in Callers \cup Slots(Cardinality(Callers)) |-> FreeRun]
    /\ cache = <<>>
    /\ db \in {[exists |-> FALSE, n |-> 0, assistant |-> a] : a \in {{}, AssistantRelations}}
    /\ lastRet = NoReturn
    /\ proc = "up"

\* the tools are plain functions registered with FastMCP, which runs one call
\* at a time
NoToolRunning == \A c \in Callers : caller[c].pc = "idle"

ToolNext ==
    \/ \E c \in Callers, tool \in MetadataTools : NoToolRunning /\ CallTool(c, tool)
    \/ \E c \in Callers : ToolData(c)
    \/ \E r \in Runs : ConnectFail(r)
    \/ \E r \in Runs : Execute(r)
    \/ \E r \in Runs : Store(r)
    \/ SchemaChange

ToolSpec == ToolInit /\ [][ToolNext]_vars

----------------------------------------------------------------------------
(* Properties *)

\* reading the cache as a mapping from query text to stored value
HasKey(c, k) == \E i \in DOMAIN c : c[i].k = k
ValueOf(c, k) == c[CHOOSE i \in DOMAIN c : c[i].k = k].v

\* executions that have passed the cache lookup and are in execute_query's body
\* or on their way back through the wrapper
Executing == {r \in Runs : run[r].st \in {"body", "store"}}

\* C1, as claimed: concurrent callers of the same uncached query text share one
\* underlying execution, so the same text is never under execution twice at once.
C1_SingleFlight ==
    \A r1, r2 \in Executing : r1 # r2 => run[r1].q # run[r2].q

\* C1, amended: every caller whose lookup missed runs its own execution (up to N
\* executions for N callers) and is handed the outcome of its own execution,
\* whatever an overlapping execution stored meanwhile; the cache still never
\* holds more than one entry for a query text.
C1_OwnExecutionOneEntry ==
    /\ [](\A i, j \in DOMAIN cache : cache[i].k = cache[j].k => i = j)
    /\ [][\A c \in Callers :
            (run[c].st = "store" /\ run'[c].st # "store"
                /\ \A o \in OrphanSlots : run'[o] = run[o]) =>
                \/ run'[c].st = "done" /\ run'[c].res = run[c].res
                \/ /\ run'[c].st = "free"
                   /\ lastRet'.q = run[c].q
                   /\ caller[c].op = "execute_query" => lastRet'.ret = run[c].res]_vars

\* C1 witness: two executions of the same text are on their way back at once,
\* with different outcomes.
C1_Witness ==
    \E r1, r2 \in Runs :
        /\ r1 # r2
        /\ run[r1].st = "store" /\ run[r2].st = "store"
        /\ run[r1].q = run[r2].q
        /\ run[r1].res # run[r2].res

\* C2: a call of execute_query(Q) that starts while the cache holds a tabular
\* result for Q (stored by an earlier call and not evicted) returns that very
\* result, goes nowhere near create_clickhouse_client, sends nothing to the
\* server, and leaves the entry's value as it was: Q is not executed again.
C2_MemoizedSuccess ==
    [][\A c \in Callers :
        /\ (/\ WorkerStart(c)
            /\ HasKey(cache, run[c].q)
            /\ ValueOf(cache, run[c].q).tag = "DataFrame") =>
                /\ run'[c].st = "done"
                /\ run'[c].res = ValueOf(cache, run[c].q)
                /\ ~run'[c].conn
                /\ run'[c].sent = NoStatement
                /\ Executing' = Executing
                /\ db' = db
                /\ HasKey(cache', run[c].q)
                /\ ValueOf(cache', run[c].q) = ValueOf(cache, run[c].q)
        /\ \A query \in ToolQueries :
            (/\ CallExecute(c, query)
             /\ HasKey(cache, query)
             /\ ValueOf(cache, query).tag = "DataFrame") =>
                /\ lastRet' = [op |-> "execute_query", q |-> query,
                               ret |-> ValueOf(cache, query), conn |-> FALSE]
                /\ run' = run
                /\ db' = db
                /\ HasKey(cache', query)
                /\ ValueOf(cache', query) = ValueOf(cache, query)]_vars

\* C2 witness: execute_query has just returned a tabular result from the cache,
\* without a connection, although the table it was read from is gone.
C2_Witness ==
    /\ lastRet.op = "execute_query"
    /\ lastRet.ret.tag = "DataFrame"
    /\ ~lastRet.conn
    /\ ~db.exists

\* C3: a statement the server rejects makes execute_query return the string
\* "error running query: {cause}"; on the way out the wrapper stores it (the
\* cache then holds an entry for Q: this string, unless an overlapping execution
\* of Q stored its outcome first); and a call for Q that starts while the cache
\* holds the error string returns that string without another execution attempt.
C3_ErrorCached ==
    [][/\ \A r \in Runs :
            /\ (Execute(r) /\ run[r].q = SelectQ /\ ~db.exists) =>
                    run'[r].res = Str("error running query: UNKNOWN_TABLE")
            /\ (Execute(r) /\ run[r].q = ProbeQuery(BadName)) =>
                    run'[r].res = Str("error running query: SYNTAX_ERROR")
            /\ (Store(r) /\ run[r].res.tag = "str") =>
                    /\ HasKey(cache', run[r].q)
                    /\ ~HasKey(cache, run[r].q) => ValueOf(cache', run[r].q) = run[r].res
       /\ \A c \in Callers :
            /\ (/\ WorkerStart(c)
                /\ HasKey(cache, run[c].q)
                /\ ValueOf(cache, run[c].q).tag = "str") =>
                    /\ run'[c].st = "done"
                    /\ run'[c].res = ValueOf(cache, run[c].q)
                    /\ ~run'[c].conn
                    /\ Executing' = Executing
                    /\ ValueOf(cache', run[c].q) = ValueOf(cache, run[c].q)
            /\ \A query \in ToolQueries :
                (/\ CallExecute(c, query)
                 /\ HasKey(cache, query)
                 /\ ValueOf(cache, query).tag = "str") =>
                    /\ lastRet' = [op |-> "execute_query", q |-> query,
                                   ret |-> ValueOf(cache, query), conn |-> FALSE]
                    /\ run' = run
                    /\ ValueOf(cache', query) = ValueOf(cache, query)]_vars

\* C3 witness: a call has just returned the stored error string without a
\* connection, although the table exists by now.
C3_Witness ==
    /\ lastRet.ret = Str("error running query: UNKNOWN_TABLE")
    /\ ~lastRet.conn
    /\ db.exists

\* C4: a caller of run_select_query is never blocked past the deadline of 30;
\* it returns either with what the finished execution handed to the future, or,
\* the deadline reached and the execution not finished, with exactly the
\* timeout message; and at the deadline that return is open to it.
C4_TimeoutBoundary ==
    /\ [](\A c \in Callers :
            caller[c].op = "run_select_query" =>
                /\ caller[c].elapsed <= 30
                /\ (caller[c].elapsed = 30 /\ run[c].st # "done") =>
                        ENABLED RunSelectTimeout(c))
    /\ [][\A c \in Callers :
            (caller[c].op = "run_select_query" /\ caller'[c].pc = "idle") =>
                \/ run[c].st = "done" /\ lastRet'.ret = run[c].res
                \/ /\ run[c].st # "done"
                   /\ caller[c].elapsed = 30
                   /\ lastRet'.ret =
                        Str("Queries taking longer than 30 seconds are currently not supported.")]_vars

\* C4 witness: the timeout message has just been returned for an execution that
\* was under way.
C4_Witness ==
    /\ lastRet.op = "run_select_query"
    /\ lastRet.ret = Str("Queries taking longer than 30 seconds are currently not supported.")
    /\ lastRet.conn

\* C5: the cancellation at a timeout does not touch an execution a worker has
\* taken: it goes on unchanged with nobody waiting, it is never blocked, and it
\* ends only by storing the outcome it produced (the cache then holds an entry
\* for Q) or by create_clickhouse_client raising (no outcome, cache untouched);
\* a call for Q that starts while the entry is there ends without executing.
C5_TimeoutAsymmetry ==
    /\ [](\A o \in OrphanSlots :
            /\ run[o].st \in {"free", "body", "store"}
            /\ run[o].st = "body" => ENABLED Execute(o)
            /\ run[o].st = "store" => ENABLED Store(o))
    /\ [][/\ \A c \in Callers :
                /\ (RunSelectTimeout(c) /\ run[c].st \in {"body", "store"}) =>
                        \E o \in OrphanSlots : run[o].st = "free" /\ run'[o] = run[c]
                /\ (WorkerStart(c) /\ HasKey(cache, run[c].q)) =>
                        /\ run'[c].st = "done"
                        /\ ~run'[c].conn
                        /\ run'[c].res = ValueOf(cache, run[c].q)
          /\ \A o \in OrphanSlots :
                (run[o].st # "free" /\ run'[o] # run[o]) =>
                    \/ run[o].st = "body" /\ run'[o].st = "store" /\ run'[o].q = run[o].q
                    \/ /\ run[o].st = "store" /\ run'[o].st = "free"
                       /\ HasKey(cache', run[o].q)
                       /\ ~HasKey(cache, run[o].q) => ValueOf(cache', run[o].q) = run[o].res
                    \/ run[o].st = "body" /\ run'[o].st = "free" /\ cache' = cache]_vars

\* C5 witness: an execution whose caller timed out has produced its outcome and
\* is about to store it, while a later identical call is already submitted.
C5_Witness ==
    \E o \in OrphanSlots, c \in Callers :
        /\ run[o].st = "store"
        /\ ~HasKey(cache, run[o].q)
        /\ caller[c].op = "run_select_query"
        /\ run[c].st = "pending"
        /\ run[c].q = run[o].q

\* C6, as claimed: when the probe query ends in an error-result string,
\* check_table_exists folds the error into false (and raises nothing).
C6_ErrorFoldedToFalse ==
    (/\ lastRet.op = "check_table_exists"
     /\ HasKey(cache, lastRet.q)
     /\ ValueOf(cache, lastRet.q).tag = "str") => lastRet.ret = Bool(FALSE)

\* C7, as claimed: no exception crosses the execute_query / run_select_query
\* boundary.
C7_NonThrowing ==
    lastRet.op \in {"execute_query", "run_select_query"} => lastRet.ret.tag # "raise"

\* C7, amended: a server-side execution failure comes back as a value (the
\* error string) and a deadline expiry as the timeout string; the one exception
\* that crosses the boundary is the failure of create_clickhouse_client.
C7_OnlyConnectFailureRaises ==
    /\ \A r \in Runs : run[r].st = "store" => run[r].res.tag \in {"DataFrame", "str"}
    /\ lastRet.op \in {"execute_query", "run_select_query"} =>
        /\ lastRet.ret.tag \in {"DataFrame", "str", "raise"}
        /\ lastRet.ret.tag = "raise" => lastRet.ret \in {Raise(e) : e \in ConnectErrors}

\* C7 witness: run_select_query has just let the connection failure through.
C7_Witness ==
    /\ lastRet.op = "run_select_query"
    /\ lastRet.ret = Raise("TransportError")

\* C8: every statement execute_query hands to query_df carries readonly = 1,
\* whichever tool the call came from; no step of execute_query changes the
\* server's data (only other clients do); and a mutating statement comes back
\* as the error string of the server's refusal.
C8_ReadOnly ==
    /\ [](\A r \in Runs : run[r].sent # NoStatement => run[r].sent.settings.readonly = 1)
    /\ [][/\ \A r \in Runs :
                Execute(r) =>
                    /\ run'[r].sent.settings.readonly = 1
                    /\ run'[r].sent.sql.body = run[r].q
                    /\ db' = db
                    /\ run[r].q = InsertQ =>
                            run'[r].res = Str("error running query: READONLY")
          /\ db' # db => DataChange]_vars

\* C8 witness: an INSERT went through execute_query while db.t exists and came
\* back as the refusal.
C8_Witness ==
    \E r \in Runs :
        /\ run[r].st = "store"
        /\ run[r].q = InsertQ
        /\ run[r].sent.settings.readonly = 1
        /\ run[r].res = Str("error running query: READONLY")
        /\ db.exists

\* every query text the tools of the model can hand to execute_query
AllQueries == UserQueries \cup ToolQueries \cup {ProbeQuery(n) : n \in EntityNames}

\* C9: a cache value is never the timeout message; each entry holds a frame or
\* an "error running query" string that the server's answer to the entry's own
\* query text produces; and a key appears only in the step in which an
\* execution of that text, having produced this value, leaves the wrapper.
C9_OnlyCompletedOutcomesCached ==
    /\ [](\A i \in DOMAIN cache :
            /\ cache[i].v # Str("Queries taking longer than 30 seconds are currently not supported.")
            /\ cache[i].v.tag \in {"DataFrame", "str"}
            /\ cache[i].k \in AllQueries
            /\ \E d \in DbStates :
                LET ans == Server(Statement(cache[i].k), d) IN
                    cache[i].v = IF ans.ok THEN ans.df
                                 ELSE Str("error running query: " \o ans.err))
    /\ [][\A k \in AllQueries :
            (~HasKey(cache, k) /\ HasKey(cache', k)) =>
                \E r \in Runs :
                    /\ run[r].st = "store"
                    /\ run[r].q = k
                    /\ run[r].res = ValueOf(cache', k)
                    /\ run'[r].st \in {"done", "free"}]_vars

\* C9 witness: the timeout message has just been returned for a query text
\* whose entry, stored by an overlapping execution, is in the cache.
C9_Witness ==
    /\ lastRet.ret = Str("Queries taking longer than 30 seconds are currently not supported.")
    /\ HasKey(cache, lastRet.q)

C11_ConnectionProvider ==
    /\ \A link \in LinkStates :
        LET made == create_clickhouse_client(link) IN
            /\ made.attempts = 1
            /\ made.out.tag \in {"client", "raise"}
            /\ made.out.tag = "client" <=>
                    (link.get_client = "ok" /\ link.server_version = "ok")
            /\ made.out.tag = "client" => made.out.version.tag = "str"
            /\ link.get_client # "ok" => made.out = Raise(link.get_client)
            /\ (link.get_client = "ok" /\ link.server_version # "ok") =>
                    made.out = Raise(link.server_version)
    /\ \A r \in Runs :
            /\ run[r].attempts <= 1
            /\ run[r].client # None =>
                    /\ run[r].client.tag = "client"
                    /\ run[r].client.version.tag = "str"
                    /\ run[r].attempts = 1
            /\ run[r].sent # NoStatement => run[r].client # None
            /\ (run[r].st = "done" /\ run[r].res.tag = "raise") =>
                    /\ run[r].res \in {Raise(e) : e \in ConnectErrors}
                    /\ run[r].client = None
                    /\ run[r].sent = NoStatement
                    /\ run[r].attempts = 1

\* C11 witness: an execution ended because the server_version read failed on a
\* client get_client had returned, after one attempt.
C11_Witness ==
    \E r \in Runs :
        /\ run[r].st = "done"
        /\ run[r].res = Raise("HandshakeError")
        /\ run[r].attempts = 1

\* C12: never more than 10 executions submitted through run_select_query are
\* running; a submission is accepted whatever the load of the workers: it is
\* queued, nothing is returned or raised to its caller, it waits while all 10
\* workers are busy, and it leaves the queue only by a worker starting it or by
\* its own caller cancelling it at the deadline; and no execution waits for
\* another one: each running execution can take its next step whatever the
\* others do, so they finish in any order.
C12_BoundedPoolUnboundedQueue ==
    /\ [](Cardinality(Running) <= 10)
    /\ [](\A c \in Callers :
            /\ CanCall(c) => ENABLED CallRunSelect(c, SelectQ)
            /\ (run[c].st = "pending" /\ Cardinality(Running) = 10) =>
                    ~ENABLED WorkerStart(c))
    /\ [](\A r \in Runs :
            /\ run[r].st = "body" => ENABLED Execute(r)
            /\ run[r].st = "store" => ENABLED Store(r))
    /\ [][\A c \in Callers :
            /\ CallRunSelect(c, SelectQ) =>
                    /\ run'[c].st = "pending"
                    /\ caller'[c].pc = "busy"
                    /\ lastRet' = NoReturn
            /\ (run[c].st = "pending" /\ run'[c].st # "pending") =>
                    \/ WorkerStart(c)
                    \/ RunSelectTimeout(c) /\ caller[c].elapsed >= 30]_vars

\* C12 witness: all 10 workers are running executions and a submission made
\* meanwhile sits in the queue.
C12_Witness ==
    /\ Cardinality(Running) = 10
    /\ \E c \in Callers : run[c].st = "pending" /\ caller[c].elapsed = 0

\* C13: the cache never holds more than maxsize entries (128 in the program)
\* nor two entries for one query text; the cache changes only by a hit, which
\* moves the entry hit to the most recently used end and keeps the order of the
\* others, or by an execution storing its outcome for a text not in the cache,
\* which appends the new entry and, the cache being full, drops exactly the
\* entry at the least recently used end; and every hit does make its entry the
\* most recently used.
C13_CacheBoundLRU ==
    /\ [](/\ Len(cache) <= maxsize
          /\ \A i, j \in DOMAIN cache : cache[i].k = cache[j].k => i = j)
    /\ [][cache' # cache =>
            \/ \E i \in DOMAIN cache :
                /\ cache' = SubSeq(cache, 1, i - 1) \o SubSeq(cache, i + 1, Len(cache))
                                \o <<cache[i]>>
                /\ \/ \E c \in Callers : WorkerStart(c) /\ run[c].q = cache[i].k
                   \/ lastRet'.q = cache[i].k /\ ~lastRet'.conn
            \/ \E r \in Runs :
                /\ Store(r)
                /\ ~HasKey(cache, run[r].q)
                /\ cache' = (IF Len(cache) = maxsize THEN Tail(cache) ELSE cache)
                                \o <<[k |-> run[r].q, v |-> run[r].res]>>]_vars
    /\ [][\A c \in Callers :
            /\ (WorkerStart(c) /\ HasKey(cache, run[c].q)) =>
                    cache'[Len(cache')].k = run[c].q
            /\ \A query \in ToolQueries :
                    (CallExecute(c, query) /\ HasKey(cache, query)) =>
                        cache'[Len(cache')].k = query
            /\ \A table_name \in EntityNames :
                    (CallCheckTableExists(c, table_name)
                        /\ HasKey(cache, ProbeQuery(table_name))) =>
                        cache'[Len(cache')].k = ProbeQuery(table_name)]_vars

\* C13 witness: the cache is full, a hit has just moved the older entry to the
\* most recently used end, and an execution is about to store an outcome for a
\* text the cache does not hold.
C13_Witness ==
    /\ Len(cache) = maxsize
    /\ lastRet.op = "execute_query"
    /\ ~lastRet.conn
    /\ lastRet.q = cache[Len(cache)].k
    /\ \E r \in Runs : run[r].st = "store" /\ ~HasKey(cache, run[r].q)

\* C14: the process exits only when no execution is left, queued or running;
\* while the atexit handler waits, every execution in flight (the ones whose
\* callers timed out) can take its next step and the exit cannot happen; and
\* once the shutdown has begun an execution changes only by its own steps, from
\* the body to its outcome and from there into the cache: none is dropped.
C14_ShutdownDrain ==
    /\ [](proc = "exited" => \A r \in Runs : run[r].st = "free")
    /\ [](proc = "draining" =>
            /\ \A r \in Runs :
                /\ run[r].st = "body" => ENABLED Execute(r)
                /\ run[r].st = "store" => ENABLED Store(r)
            /\ Running # {} => ~ENABLED Exit)
    /\ [][proc # "up" =>
            \A o \in OrphanSlots :
                run'[o] # run[o] =>
                    \/ /\ Execute(o)
                       /\ run'[o].st = "store"
                       /\ run'[o].res.tag \in {"DataFrame", "str"}
                    \/ /\ Store(o)
                       /\ run'[o].st = "free"
                       /\ HasKey(cache', run[o].q)
                    \/ ConnectFail(o) /\ run'[o].st = "free"]_vars

\* C14 witness: the atexit handler is waiting while an execution whose caller
\* timed out has produced its outcome and another is still in the body.
C14_Witness ==
    /\ proc = "draining"
    /\ \E o1, o2 \in OrphanSlots : run[o1].st = "store" /\ run[o2].st = "body"

\* C15: an entry stays in the cache with its value through every step, except
\* the one step in which an execution stores a new text into the full cache
\* while the entry is the least recently used; a change of the server's data
\* leaves the cache as it is; and while the entry is there, execute_query
\* returns its value and check_table_exists the truth value of its result
\* cell, without a connection, whatever the server's data have become.
C15_NoInvalidation ==
    /\ [][\A k \in AllQueries :
            HasKey(cache, k) =>
                \/ HasKey(cache', k) /\ ValueOf(cache', k) = ValueOf(cache, k)
                \/ /\ Len(cache) = maxsize
                   /\ cache[1].k = k
                   /\ \E r \in Runs :
                        Store(r) /\ run[r].q # k /\ ~HasKey(cache, run[r].q)]_vars
    /\ [][DataChange => (db' # db /\ cache' = cache)]_vars
    /\ [][\A c \in Callers :
            /\ \A query \in ToolQueries :
                (CallExecute(c, query) /\ HasKey(cache, query)) =>
                    /\ lastRet'.ret = ValueOf(cache, query)
                    /\ ~lastRet'.conn
                    /\ run' = run
            /\ \A table_name \in EntityNames :
                (/\ CallCheckTableExists(c, table_name)
                 /\ HasKey(cache, ProbeQuery(table_name))
                 /\ ValueOf(cache, ProbeQuery(table_name)).tag = "DataFrame") =>
                    /\ lastRet'.ret =
                        Bool(ValueOf(cache, ProbeQuery(table_name)).rows[1][1] # 0)
                    /\ ~lastRet'.conn
                    /\ run' = run]_vars

\* C15 witness: check_table_exists has just answered false from the cache,
\* without a connection, although the table exists by now.
C15_Witness ==
    /\ lastRet.op = "check_table_exists"
    /\ lastRet.ret = Bool(FALSE)
    /\ ~lastRet.conn
    /\ db.exists

\* the two data queries of a tool
DataQueries(tool) == {RichSql(tool), FallbackSql(tool)}

C17_ConvergentCache ==
    /\ [](\A i, j \in DOMAIN cache : i # j => cache[i].k # cache[j].k)
    /\ [][\A r \in Runs :
            Store(r) =>
                /\ HasKey(cache', run[r].q)
                /\ IF HasKey(cache, run[r].q) THEN cache' = cache
                   ELSE ValueOf(cache', run[r].q) = run[r].res]_vars
    /\ [][\A c \in Callers :
            /\ (WorkerStart(c) /\ HasKey(cache, run[c].q)) =>
                    /\ run'[c].st = "done"
                    /\ run'[c].res = ValueOf(cache, run[c].q)
            /\ \A query \in ToolQueries :
                    (CallExecute(c, query) /\ HasKey(cache, query)) =>
                        lastRet'.ret = ValueOf(cache, query)]_vars

\* C17 witness: of two overlapping executions of one text the first has stored
\* its outcome, and the second is coming back with a different one.
C17_Witness ==
    \E r \in Runs :
        /\ run[r].st = "store"
        /\ HasKey(cache, run[r].q)
        /\ ValueOf(cache, run[r].q) # run[r].res

\* C18: the step in which create_clickhouse_client fails inside
\* execute_query(Q) leaves the cache exactly as it is, as does the lookup that
\* missed before it, and no cache value is ever an exception; so after the
\* failure, unless another execution has stored Q, a call of execute_query(Q)
\* misses again, enters the body and makes a connection attempt of its own.
C18_ConnectFailureNotMemoized ==
    /\ [](\A i \in DOMAIN cache : cache[i].v.tag \in {"DataFrame", "str"})
    /\ [](lastRet.ret \in {Raise(e) : e \in ConnectErrors} =>
            /\ lastRet.conn
            /\ (lastRet.op = "execute_query" /\ ~HasKey(cache, lastRet.q)) =>
                    \A c \in Callers :
                        CanCall(c) =>
                            ENABLED (CallExecute(c, lastRet.q) /\ run'[c].st = "body"))
    /\ [][\A r \in Runs :
            /\ ConnectFail(r) =>
                    /\ cache' = cache
                    /\ run'[r].st \in {"free", "done"}
                    /\ run'[r].st = "done" => run'[r].res.tag = "raise"
            /\ Execute(r) => (run[r].attempts = 0 /\ run'[r].attempts = 1)]_vars
    /\ [][\A c \in Callers :
            /\ (WorkerStart(c) /\ ~HasKey(cache, run[c].q)) =>
                    (cache' = cache /\ run'[c].st = "body" /\ run'[c].conn)
            /\ \A query \in ToolQueries :
                    (CallExecute(c, query) /\ ~HasKey(cache, query)) =>
                        (cache' = cache /\ run'[c].st = "body" /\ run'[c].conn)]_vars

\* C18 witness: execute_query has just raised a connection failure for a text
\* the full cache does not hold.
C18_Witness ==
    /\ lastRet.op = "execute_query"
    /\ lastRet.ret = Raise("AuthError")
    /\ Len(cache) = maxsize
    /\ ~HasKey(cache, lastRet.q)

\* C19: the wait of run_select_query starts at the submission (elapsed 0 with
\* the work item queued) and time counts for a caller whose item is queued as
\* for one whose item is running; a caller whose item is still queued at the
\* deadline can take the timeout return, which hands back the timeout message,
\* takes the item out of the queue and leaves no execution behind: nothing is
\* left running for it, no connection was opened, and the cache is as it was.
C19_DeadlineCoversQueueWait ==
    /\ [](\A c \in Callers :
            (run[c].st = "pending" /\ caller[c].elapsed = 30) =>
                ENABLED RunSelectTimeout(c))
    /\ [](\A o \in OrphanSlots : run[o].st # "pending")
    /\ [][/\ \A c \in Callers :
                /\ CallRunSelect(c, SelectQ) =>
                        (caller'[c].elapsed = 0 /\ run'[c].st = "pending")
                /\ (Tick /\ caller[c].op = "run_select_query") =>
                        caller'[c].elapsed = caller[c].elapsed + 30
                /\ (RunSelectTimeout(c) /\ run[c].st = "pending") =>
                        /\ caller[c].elapsed = 30
                        /\ lastRet'.ret =
                            Str("Queries taking longer than 30 seconds are currently not supported.")
                        /\ ~lastRet'.conn
                        /\ run'[c].st = "free"
                        /\ \A r \in Runs \ {c} : run'[r].st = run[r].st
                        /\ Executing' = Executing
                        /\ cache' = cache
          /\ \A o \in OrphanSlots :
                (run[o].st = "free" /\ run'[o].st # "free") =>
                    \E c \in Callers :
                        /\ RunSelectTimeout(c)
                        /\ run[c].st \in {"body", "store"}
                        /\ run'[o] = run[c]]_vars

\* C19 witness: with all 10 workers busy, the timeout message has just been
\* returned for a submission that never left the queue.
C19_Witness ==
    /\ lastRet.op = "run_select_query"
    /\ lastRet.ret = Str("Queries taking longer than 30 seconds are currently not supported.")
    /\ ~lastRet.conn
    /\ Cardinality(Running) = 10
    /\ ~HasKey(cache, lastRet.q)

====
